---- MODULE Spec2Model ----
(***************************************************************************)
(* State-machine model of src/main.py: an RSS aggregator that keeps a      *)
(* rolling master feed (feed_master.xml), a daily digest (daily_feed.xml)  *)
(* and a watermark record (last_seen.json).                                *)
(*                                                                         *)
(* Time.  A point in time is an integer number of ticks; one second is     *)
(* TicksPerSecond ticks, so a datetime that carries microseconds (the      *)
(* datetime.now() fallback) is a tick count that is not a whole second.    *)
(* The RFC-2822 text of <pubDate> has whole-second precision: strftime     *)
(* maps ticks to whole seconds and parsedate_to_datetime maps them back.   *)
(* All datetimes are timezone-aware instants (comparison is by instant),   *)
(* counted from 00:00:00 UTC of the first day of the schedule.             *)
(*                                                                         *)
(* Files.  A document is [exists, complete, items]; it is complete when    *)
(* the write that produced it ran to its end.  open(path, "w") empties the *)
(* file before anything is written, so a write that is interrupted, or is  *)
(* still in progress, leaves a document that is not complete, and a state  *)
(* record that is not JSON.                                                *)
(***************************************************************************)
EXTENDS Integers, Sequences, FiniteSets, Bags, TLC

\* ---------------------------------------------------------------- bounds
\* MAX_ITEMS is 500 in the source (line 22) and the first-run fallback is 50
\* (line 134); both are scaled down, keeping FIRST_RUN_ITEMS < MAX_ITEMS.
MAX_ITEMS == 2
FIRST_RUN_ITEMS == 1

\* ------------------------------------------------------- program constants
\* BD_TIME = timezone(timedelta(hours=6))
BD_OFFSET_HOURS == 6
\* the trigger window of main(): now.hour == 9 and now.minute < 5
TRIGGER_HOUR == 9
TRIGGER_MINUTES == 5
\* Python's None / JSON null in the state record
None == 0
\* a last_seen string datetime.fromisoformat() rejects
BadIso == -1
\* a date key that is not in a fetched entry
KeyAbsent == 0
\* a date string parsedate_to_datetime() rejects
BadDate == -1
\* an attribute (title, summary) that is not in a fetched entry
AttrAbsent == "(absent)"
\* getattr(entry, "title", "No Title") and getattr(entry, "summary", "")
DefaultTitle == "No Title"
DefaultSummary == ""

\* The sub-second parts datetime.now() may carry, in ticks, and the ticks of
\* one second.
SubSecond == {0, 1}
TicksPerSecond == Cardinality(SubSecond)

\* The configured sources, in listed order (six URLs in the source).
FEEDS == <<"thediplomat", "foreignaffairs">>

\* Links the sources serve; "" is an entry without a link.  Both sources
\* may serve "a"; "b" is the first source's and "c" the second's.
Links == {"a", "b", "c"}
NoLink == ""
Serves == <<{"a", "b"}, {"a", "c"}>>

\* The instants (whole seconds) at which the scheduler starts a run:
\* 02:57:00 and 03:02:00 UTC of the first day, 03:02:00 UTC of the second,
\* that is 08:57, 09:02 and 09:02 in BD_TIME.
Schedule == <<10620, 10920, 97320>>

\* Publication dates a feed may give (whole seconds), in ticks.
FeedTimes == {TicksPerSecond * Schedule[i] : i \in 1..Len(Schedule)}

VARIABLES
    masterFile,  \* feed_master.xml: [exists, complete, items], items carry pubDate text
    dailyFile,   \* daily_feed.xml, same shape
    stateFile,   \* last_seen.json: [kind, last_seen]
    clock,       \* the wall clock: Schedule[clock] is the current second
    run,         \* what the last invocation did and saw (observation only)
    delivered,   \* the links of every digest document written so far (history)
    writing,     \* the rewrite of feed_master.xml an invocation is in the middle of
    call         \* the arguments of a function applied on its own, and its result

vars == <<masterFile, dailyFile, stateFile, clock, run, delivered, writing, call>>

\* ------------------------------------------------------------ conversions
\* a format without the time of day ("%a, %d %b %Y")
strftime_date(t) == ((t \div TicksPerSecond) \div 86400) * 86400

\* it["pubDate"].strftime("%a, %d %b %Y %H:%M:%S %z"): the text keeps whole seconds
strftime(t) == t \div TicksPerSecond

\* parsedate_to_datetime(text) of a text strftime wrote
parsedate_to_datetime(s) == s * TicksPerSecond

\* latest_time.isoformat() keeps the full value; fromisoformat reads it back
isoformat(t) == t

fromisoformat(s) == s

\* now.astimezone(BD_TIME) of an instant in seconds: the local minute of the day
astimezone(t) == ((t \div 60) + BD_OFFSET_HOURS * 60) % (24 * 60)

\* ---------------------------------------------------------------- helpers
Max(S) == CHOOSE x \in S : \A y \in S : y <= x

Min2(a, b) == IF a <= b THEN a ELSE b

Range(s) == {s[i] : i \in 1..Len(s)}

Take(s, n) == SubSeq(s, 1, Min2(n, Len(s)))

LinksOf(s) == {s[i].link : i \in 1..Len(s)}

\* getattr(entry, name, default)
getattr(value, default) == IF value = AttrAbsent THEN default ELSE value

\* parse_date(entry): published, then pubDate, then updated; else now (UTC)
parse_date(entry, now) ==
    IF entry.published # KeyAbsent /\ entry.published # BadDate THEN entry.published
    ELSE IF entry.pubDate # KeyAbsent /\ entry.pubDate # BadDate THEN entry.pubDate
    ELSE IF entry.updated # KeyAbsent /\ entry.updated # BadDate THEN entry.updated
    ELSE now

\* list.sort(key=pubDate, reverse=True): stable, descending.  InsertDesc puts
\* x after every element whose key is >= its own.
RECURSIVE InsertDesc(_, _)
InsertDesc(sorted, x) ==
    IF sorted = <<>> THEN <<x>>
    ELSE IF Head(sorted).pubDate >= x.pubDate
         THEN <<Head(sorted)>> \o InsertDesc(Tail(sorted), x)
         ELSE <<x>> \o sorted

RECURSIVE SortDesc(_)
SortDesc(s) ==
    IF s = <<>> THEN <<>>
    ELSE InsertDesc(SortDesc(SubSeq(s, 1, Len(s) - 1)), s[Len(s)])

\* ------------------------------------------------------------------ files
NoFile == [exists |-> FALSE, complete |-> FALSE, items |-> <<>>]

\* a file that open(path, "w") has emptied and that has not been written to its end
Truncated == [exists |-> TRUE, complete |-> FALSE, items |-> <<>>]

\* write_rss(items, file_path): the whole document is rewritten
write_rss(items) ==
    [exists |-> TRUE, complete |-> TRUE,
     items |-> [i \in 1..Len(items) |->
                   [title |-> items[i].title, link |-> items[i].link,
                    description |-> items[i].description,
                    pubDate |-> strftime(items[i].pubDate)]]]

\* ET.parse(MASTER_FILE) raises on a document that is not complete
ParseFails(file) == file.exists /\ ~file.complete

\* load_existing_master(): [] when the file is missing, else its items
load_existing_master(file) ==
    IF ~file.exists THEN <<>>
    ELSE [i \in 1..Len(file.items) |->
             [title |-> file.items[i].title, link |-> file.items[i].link,
              description |-> file.items[i].description,
              pubDate |-> parsedate_to_datetime(file.items[i].pubDate)]]

NoState == [kind |-> "nofile", last_seen |-> None]

Garbage == [kind |-> "garbage", last_seen |-> None]

\* load_state(): raises when the file exists and is not JSON
load_state(file) ==
    IF file.kind = "nofile" THEN [raised |-> FALSE, state |-> [last_seen |-> None]]
    ELSE IF file.kind = "garbage" THEN [raised |-> TRUE, state |-> [last_seen |-> None]]
    ELSE [raised |-> FALSE, state |-> [last_seen |-> file.last_seen]]

\* save_state(state)
save_state(state) == [kind |-> "json", last_seen |-> state.last_seen]

\* ---------------------------------------------------------- update_master
\* a test that takes every entry that has a link
AcceptsAnyLink(link, existing_links) == link # NoLink

\* if link and link not in existing_links
Accepts(link, existing_links) == link # NoLink /\ link \notin existing_links

\* for entry in feed.entries: append when the link is non-empty and not in
\* existing_links (the set built from the stored items before the loop)
RECURSIVE EntryLoop(_, _, _, _, _)
EntryLoop(entries, k, existing_links, now, new_items) ==
    IF k > Len(entries) THEN new_items
    ELSE EntryLoop(entries, k + 1, existing_links, now,
            IF Accepts(entries[k].link, existing_links)
            THEN Append(new_items,
                        [title |-> getattr(entries[k].title, DefaultTitle),
                         link |-> entries[k].link,
                         description |-> getattr(entries[k].summary, DefaultSummary),
                         pubDate |-> parse_date(entries[k], now)])
            ELSE new_items)

\* a handler that lets the error out of the loop instead of going on
OnFeedErrorAbort(acc) == [acc EXCEPT !.raised = TRUE]

\* except Exception as e: print(...): the error is dropped and the loop goes on
OnFeedError(acc) == acc

\* for url in FEEDS: try: feedparser.parse(url) ... except Exception
\* acc: the sources visited, new_items so far, whether an error left the loop
RECURSIVE FeedLoop(_, _, _, _, _)
FeedLoop(i, fetch, existing_links, now, acc) ==
    IF i > Len(FEEDS) \/ acc.raised THEN acc
    ELSE FeedLoop(i + 1, fetch, existing_links, now,
            IF fetch[i].error
            THEN OnFeedError([acc EXCEPT !.visited = Append(acc.visited, i)])
            ELSE [acc EXCEPT !.visited = Append(acc.visited, i),
                             !.new_items = EntryLoop(fetch[i].entries, 1, existing_links,
                                                     now, acc.new_items)])

\* a concatenation with the new items in front
NewItemsFirst(existing, new_items) == new_items \o existing

\* all_items = existing + new_items
AllItems(existing, new_items) == existing \o new_items

\* the list left as it is
UnsortedItems(all_items) == all_items

\* all_items.sort(key=lambda x: x["pubDate"], reverse=True)
SortItems(all_items) == SortDesc(all_items)

\* a slice that keeps one item too many
TrimOffByOne(all_items) == Take(all_items, MAX_ITEMS + 1)

\* all_items[:MAX_ITEMS]
TrimItems(all_items) == Take(all_items, MAX_ITEMS)

\* update_master(): the document left in MASTER_FILE, the sources visited, and
\* whether the call raised (then nothing is written)
update_master(file, fetch, now) ==
    LET existing == load_existing_master(file)
        existing_links == LinksOf(existing)
        loop == FeedLoop(1, fetch, existing_links, now,
                         [visited |-> <<>>, new_items |-> <<>>, raised |-> FALSE])
        all_items == TrimItems(SortItems(AllItems(existing, loop.new_items)))
    IN  IF ParseFails(file)
        THEN [raised |-> TRUE, master |-> file, visited |-> <<>>]
        ELSE IF loop.raised
        THEN [raised |-> TRUE, master |-> file, visited |-> loop.visited]
        ELSE [raised |-> FALSE, master |-> write_rss(all_items), visited |-> loop.visited]

\* ----------------------------------------------------------- update_daily
\* a comparison that selects the items older than the watermark
SelectOlder(master_items, last_seen_dt) ==
    SelectSeq(master_items, LAMBDA i : i.pubDate < last_seen_dt)

\* a comparison that also selects the items at the watermark
SelectFromWatermark(master_items, last_seen_dt) ==
    SelectSeq(master_items, LAMBDA i : i.pubDate >= last_seen_dt)

\* a selection cut like the first-run fallback
SelectCapped(master_items, last_seen_dt) ==
    Take(SelectSeq(master_items, LAMBDA i : i.pubDate > last_seen_dt), FIRST_RUN_ITEMS)

\* [i for i in master_items if i["pubDate"] > last_seen_dt]
SelectNew(master_items, last_seen_dt) ==
    SelectSeq(master_items, LAMBDA i : i.pubDate > last_seen_dt)

\* a fallback without the cap
FirstRunAll(master_items) == master_items

\* master_items[:50], the first-run fallback
FirstRun(master_items) == Take(master_items, FIRST_RUN_ITEMS)

\* a watermark that is reset when nothing was selected
AdvanceOrReset(new_items, state_file) ==
    IF new_items # <<>>
    THEN save_state([last_seen |->
                        isoformat(Max({new_items[i].pubDate : i \in 1..Len(new_items)}))])
    ELSE save_state([last_seen |-> None])

\* if new_items: latest_time = max(...); state["last_seen"] = ...; save_state(state)
AdvanceWatermark(new_items, state_file) ==
    IF new_items # <<>>
    THEN save_state([last_seen |->
                        isoformat(Max({new_items[i].pubDate : i \in 1..Len(new_items)}))])
    ELSE state_file

\* if not os.path.exists(MASTER_FILE)
MasterMissing(master) == ~master.exists

\* The write failures a digest step may meet: none; open(STATE_FILE, "w")
\* raises; json.dump() or the close raises after the file was emptied; the
\* same two for the digest document in tree.write().
NoFault == "none"
StateFaults == {"state-open", "state-write"}
DigestFaults == {"digest-open", "digest-write"}
Faults == {NoFault} \cup StateFaults \cup DigestFaults

\* what a write that raised leaves of the file: open() raised and the file is
\* as it was, or the file was emptied and not written to its end
FailedWrite(fault, file, emptied) ==
    IF fault \in {"state-open", "digest-open"} THEN file ELSE emptied

\* update_daily(): the files it leaves, whether it raised, whether it skipped
\* for want of a master document, the write failure it met and whether the
\* digest document was written
update_daily(master, state_file, daily, fault) ==
    LET loaded == load_state(state_file)
        last_seen == loaded.state.last_seen
        master_items == SortDesc(load_existing_master(master))
        new_items ==
            IF last_seen # None
            THEN SelectNew(master_items, fromisoformat(last_seen))
            ELSE FirstRun(master_items)
        left == [raised |-> TRUE, skipped |-> FALSE, state |-> state_file,
                 daily |-> daily, fault |-> NoFault, written |-> FALSE]
    IN  IF loaded.raised THEN left
        ELSE IF MasterMissing(master) THEN [left EXCEPT !.raised = FALSE, !.skipped = TRUE]
        ELSE IF ParseFails(master) \/ last_seen = BadIso THEN left
        ELSE IF new_items # <<>> /\ fault \in StateFaults
        THEN [left EXCEPT !.state = FailedWrite(fault, state_file, Garbage),
                          !.fault = fault]
        ELSE IF fault \in DigestFaults
        THEN [left EXCEPT !.state = AdvanceWatermark(new_items, state_file),
                          !.daily = FailedWrite(fault, daily, Truncated),
                          !.fault = fault]
        ELSE [raised |-> FALSE, skipped |-> FALSE,
              state |-> AdvanceWatermark(new_items, state_file),
              daily |-> write_rss(new_items), fault |-> NoFault, written |-> TRUE]

\* ------------------------------------------------------------------- main
\* now.hour == 9 and now.minute < 5, now in BD_TIME
InWindow(t) ==
    LET now == astimezone(t)
    IN  now \div 60 = TRIGGER_HOUR /\ now % 60 < TRIGGER_MINUTES

\* ----------------------------------------------------------------- inputs
\* What a source serves for one entry: a link (or none), its title and
\* summary and its date keys.
Entry(l, title, summary, published, updated) ==
    [link |-> l, title |-> title, summary |-> summary,
     published |-> published, pubDate |-> KeyAbsent, updated |-> updated]

Entries ==
    {Entry(l, "t1", "s1", t, KeyAbsent) : l \in Links, t \in FeedTimes \cup {KeyAbsent}}
    \cup {Entry("a", "t1", "s1", BadDate, TicksPerSecond * Schedule[1]),
          Entry(NoLink, "t1", "s1", KeyAbsent, KeyAbsent)}

\* One fetch of one source: it raises, or returns a list of entries.
FetchResults(i) ==
    {[error |-> TRUE, entries |-> <<>>], [error |-> FALSE, entries |-> <<>>]}
    \cup {[error |-> FALSE, entries |-> <<e>>] :
            e \in {x \in Entries : x.link \in Serves[i] \cup {NoLink}}}

\* One fetch of every source, in the order of FEEDS.
Fetches ==
    {f \in [1..Len(FEEDS) -> UNION {FetchResults(i) : i \in 1..Len(FEEDS)}] :
        \A i \in 1..Len(FEEDS) : f[i] \in FetchResults(i)}

\* The fetches in which no source fails and every entry has a link and a date
\* that parses or none: a failing source, an entry without a link and an
\* entry dated by its "updated" key add to a run what an empty result, or an
\* entry with that date, adds.
PlainFetches ==
    {f \in Fetches :
        \A i \in 1..Len(FEEDS) :
            /\ ~f[i].error
            /\ \A k \in 1..Len(f[i].entries) :
                   f[i].entries[k].link # NoLink /\ f[i].entries[k].published # BadDate}

\* whether a fetch needs the datetime.now() fallback
NeedsNow(fetch) ==
    \E i \in 1..Len(FEEDS) : \E k \in 1..Len(fetch[i].entries) :
        parse_date(fetch[i].entries[k], None) = None

\* datetime.now(timezone.utc): the clock's second plus a sub-second part
Nows(fetch) ==
    IF NeedsNow(fetch)
    THEN {Schedule[clock] * TicksPerSecond + f : f \in SubSecond}
    ELSE {Schedule[clock] * TicksPerSecond}

\* ----------------------------------------------------------- observation
\* The items a run is offered by the sources that did not fail: non-empty
\* link, not stored before the run; as the master document would hold them.
Offered(file, fetch, now) ==
    {[title |-> getattr(fetch[p[1]].entries[p[2]].title, DefaultTitle),
      link |-> fetch[p[1]].entries[p[2]].link,
      description |-> getattr(fetch[p[1]].entries[p[2]].summary, DefaultSummary),
      pubDate |-> strftime(parse_date(fetch[p[1]].entries[p[2]], now))] :
        p \in {q \in (1..Len(FEEDS)) \X (1..1) :
                 /\ ~fetch[q[1]].error
                 /\ q[2] <= Len(fetch[q[1]].entries)
                 /\ fetch[q[1]].entries[q[2]].link # NoLink
                 /\ fetch[q[1]].entries[q[2]].link
                       \notin LinksOf(load_existing_master(file))}}

Failed(fetch) == {i \in 1..Len(FEEDS) : fetch[i].error}

NoRun ==
    [op |-> "none", raised |-> FALSE, dailyRan |-> FALSE, skipped |-> FALSE,
     prevState |-> [kind |-> "nofile", last_seen |-> None],
     failed |-> {}, visited |-> <<>>, offered |-> {}, fault |-> NoFault]

\* no rewrite of the master document is in progress
NotWriting == [active |-> FALSE, previous |-> NoFile, new |-> NoFile]

\* no function is being applied on its own
NoCall == [op |-> "none"]

\* ---------------------------------------------------------------- actions
Init ==
    /\ masterFile = NoFile
    /\ dailyFile = NoFile
    /\ stateFile = NoState
    /\ clock = 1
    /\ run = NoRun
    /\ delivered = {}
    /\ writing = NotWriting
    /\ call = NoCall

\* time passes to the next scheduled start
Tick ==
    /\ clock < Len(Schedule)
    /\ clock' = clock + 1
    /\ run' = [NoRun EXCEPT !.op = "tick"]
    /\ UNCHANGED <<masterFile, dailyFile, stateFile, delivered, writing, call>>

\* one call of update_master(), its fetches observed
UpdateMasterRun ==
    \E fetch \in Fetches : \E now \in Nows(fetch) :
    \E r \in {update_master(masterFile, fetch, now)} :
        /\ masterFile' = r.master
        /\ run' = [NoRun EXCEPT !.op = "update_master", !.raised = r.raised,
                                !.prevState = stateFile,
                                !.failed = Failed(fetch), !.visited = r.visited,
                                !.offered = Offered(masterFile, fetch, now)]
        /\ UNCHANGED <<dailyFile, stateFile, clock, delivered, writing, call>>

\* the links of the digest documents written so far, this one included, when
\* the history is kept
Delivered(d, keep) ==
    IF keep /\ d.written THEN delivered \cup LinksOf(d.daily.items) ELSE delivered

\* one call of update_daily(), meeting one of the write failures in faults
UpdateDaily(faults, keep) ==
    \E fault \in faults :
    \E d \in {update_daily(masterFile, stateFile, dailyFile, fault)} :
        /\ d.fault = fault
        /\ stateFile' = d.state
        /\ dailyFile' = d.daily
        /\ delivered' = Delivered(d, keep)
        /\ run' = [NoRun EXCEPT !.op = "update_daily", !.raised = d.raised,
                                !.dailyRan = TRUE, !.skipped = d.skipped,
                                !.prevState = stateFile, !.fault = d.fault]
        /\ UNCHANGED <<masterFile, clock, writing, call>>

\* one call of update_daily(), every write succeeding
UpdateDailyRun == UpdateDaily({NoFault}, FALSE)

\* main() outside the trigger window leaves the digest and the watermark alone
NoDaily ==
    [raised |-> FALSE, skipped |-> FALSE, state |-> stateFile, daily |-> dailyFile,
     fault |-> NoFault, written |-> FALSE]

\* one invocation of main() at the clock's instant: update_master(), then
\* update_daily() when the instant is in the window, meeting one of the write
\* failures in faults
Main(fetches, faults, keep) ==
    \E fetch \in fetches : \E now \in Nows(fetch) :
    \E r \in {update_master(masterFile, fetch, now)} :
    \E fault \in faults :
    \E d \in {IF ~r.raised /\ InWindow(Schedule[clock])
              THEN update_daily(r.master, stateFile, dailyFile, fault)
              ELSE NoDaily} :
        /\ d.fault = fault
        /\ masterFile' = r.master
        /\ stateFile' = d.state
        /\ dailyFile' = d.daily
        /\ delivered' = Delivered(d, keep)
        /\ run' = [NoRun EXCEPT !.op = "main", !.raised = r.raised \/ d.raised,
                                !.dailyRan = ~r.raised /\ InWindow(Schedule[clock]),
                                !.skipped = d.skipped,
                                !.prevState = stateFile, !.fault = d.fault]
        /\ UNCHANGED <<clock, writing, call>>

\* one invocation of main(), every write succeeding
MainRun == Main(Fetches, {NoFault}, FALSE)

\* the program as deployed: main() on the schedule, update_daily() on its own
Next == Tick \/ UpdateDailyRun \/ MainRun

Spec == Init /\ [][Next]_vars

\* The same program started on a state record that is not readable: one that is
\* not JSON (save_state() opens the file with "w", which empties it, before
\* json.dump writes; a run killed in between leaves it so) or whose last_seen
\* is not an ISO-8601 timestamp.
InitMalformed ==
    /\ masterFile = NoFile
    /\ dailyFile = NoFile
    /\ stateFile \in {Garbage, [kind |-> "json", last_seen |-> BadIso]}
    /\ clock = 1
    /\ run = NoRun
    /\ delivered = {}
    /\ writing = NotWriting
    /\ call = NoCall

SpecMalformed == InitMalformed /\ [][Next]_vars

\* update_master() alone, called repeatedly, with what its sources returned on record
NextMaster == Tick \/ UpdateMasterRun

SpecMaster == Init /\ [][NextMaster]_vars

\* The program as deployed, with the history of what the digests delivered.
UpdateDailyDelivering == UpdateDaily({NoFault}, TRUE)

MainDelivering == Main(PlainFetches, {NoFault}, TRUE)

NextDelivery == Tick \/ UpdateDailyDelivering \/ MainDelivering

SpecDelivery == Init /\ [][NextDelivery]_vars

\* The program as deployed, where a write of the state record or of the digest
\* document may fail.
MainPlainRun == Main(PlainFetches, {NoFault}, FALSE)

UpdateDailyFaultRun == UpdateDaily(Faults \ {NoFault}, FALSE)

NextFault == Tick \/ UpdateDailyRun \/ MainPlainRun \/ UpdateDailyFaultRun

SpecFault == Init /\ [][NextFault]_vars

\* Two invocations that overlap.  One is in update_master(): write_rss() ends
\* in tree.write(MASTER_FILE), which opens the file for writing, and so
\* empties it, then writes the document and closes the file.  The other one
\* starts meanwhile and reads the file in load_existing_master().  Nothing in
\* the program keeps two invocations from overlapping.
BeginRewrite ==
    /\ ~writing.active
    /\ \E fetch \in PlainFetches : \E now \in Nows(fetch) :
       \E r \in {update_master(masterFile, fetch, now)} :
           /\ ~r.raised
           /\ writing' = [active |-> TRUE, previous |-> masterFile, new |-> r.master]
    /\ masterFile' = Truncated
    /\ run' = [NoRun EXCEPT !.op = "open"]
    /\ UNCHANGED <<dailyFile, stateFile, clock, delivered, call>>

EndRewrite ==
    /\ writing.active
    /\ masterFile' = writing.new
    /\ writing' = NotWriting
    /\ run' = [NoRun EXCEPT !.op = "close"]
    /\ UNCHANGED <<dailyFile, stateFile, clock, delivered, call>>

\* load_existing_master() of the other invocation: it raises when ET.parse()
\* meets a document that is not complete
OverlappingLoad ==
    /\ run' = [NoRun EXCEPT !.op = "load", !.raised = ParseFails(masterFile)]
    /\ UNCHANGED <<masterFile, dailyFile, stateFile, clock, delivered, writing, call>>

NextOverlap == Tick \/ BeginRewrite \/ EndRewrite \/ OverlappingLoad

SpecOverlap == Init /\ [][NextOverlap]_vars

\* ---------------------------------------------------- functions on their own
\* write_rss() followed by load_existing_master(), applied to any short
\* sequence of items: any order, links repeated or not, timestamps with and
\* without a sub-second part.
RoundTripItems ==
    {[title |-> "t1", link |-> l, description |-> "s1",
      pubDate |-> TicksPerSecond * Schedule[i] + f] :
        l \in Links, i \in 1..2, f \in SubSecond}

RoundTripInputs == UNION {[1..n -> RoundTripItems] : n \in 0..MAX_ITEMS}

InitRoundTrip ==
    /\ masterFile = NoFile
    /\ dailyFile = NoFile
    /\ stateFile = NoState
    /\ clock = 1
    /\ run = NoRun
    /\ delivered = {}
    /\ writing = NotWriting
    /\ call \in {[op |-> "roundtrip", items |-> s, loaded |-> <<>>, done |-> FALSE] :
                    s \in RoundTripInputs}

\* write_rss(items, MASTER_FILE); load_existing_master()
RoundTrip ==
    /\ call.op = "roundtrip" /\ ~call.done
    /\ masterFile' = write_rss(call.items)
    /\ call' = [call EXCEPT !.loaded = load_existing_master(masterFile'), !.done = TRUE]
    /\ UNCHANGED <<dailyFile, stateFile, clock, run, delivered, writing>>

SpecRoundTrip == InitRoundTrip /\ [][RoundTrip]_vars

\* update_master() applied once to a master document and to what the sources
\* return.  The documents are the ones update_master() leaves: at most
\* MAX_ITEMS items, whole seconds, newest first.  The first source returns up
\* to two entries, the second up to one; an entry is dated at the first
\* instant of the schedule or not at all, and one for "a" carries another
\* title, no summary and a later date.
CallStored ==
    {[title |-> "t1", link |-> l, description |-> "s1", pubDate |-> Schedule[i]] :
        l \in Links, i \in 1..2}

Documents ==
    {write_rss(load_existing_master([exists |-> TRUE, complete |-> TRUE, items |-> s])) :
        s \in {q \in UNION {[1..n -> CallStored] : n \in 0..MAX_ITEMS} :
                  \A i, j \in 1..Len(q) : i < j => q[i].pubDate >= q[j].pubDate}}

CallEntries ==
    {Entry(l, "t1", "s1", t, KeyAbsent) :
        l \in Links, t \in {TicksPerSecond * Schedule[1], KeyAbsent}}
    \cup {Entry("a", "t2", AttrAbsent, TicksPerSecond * Schedule[2], KeyAbsent),
          Entry(NoLink, "t1", "s1", KeyAbsent, KeyAbsent)}

CallResults(i, most) ==
    {[error |-> TRUE, entries |-> <<>>]}
    \cup {[error |-> FALSE, entries |-> es] :
            es \in UNION {[1..n -> {x \in CallEntries : x.link \in Serves[i] \cup {NoLink}}] :
                            n \in 0..most}}

CallFetches == {<<r1, r2>> : r1 \in CallResults(1, 2), r2 \in CallResults(2, 1)}

InitUpdateMaster ==
    /\ masterFile \in Documents
    /\ dailyFile = NoFile
    /\ stateFile = NoState
    /\ clock = 1
    /\ run = NoRun
    /\ delivered = {}
    /\ writing = NotWriting
    /\ call \in UNION {{[op |-> "update_master", before |-> masterFile, fetch |-> f,
                           now |-> t, raised |-> FALSE, done |-> FALSE] : t \in Nows(f)} :
                         f \in CallFetches}

\* update_master() on the recorded arguments
ApplyUpdateMaster ==
    /\ call.op = "update_master" /\ ~call.done
    /\ \E r \in {update_master(masterFile, call.fetch, call.now)} :
           /\ masterFile' = r.master
           /\ call' = [call EXCEPT !.raised = r.raised, !.done = TRUE]
    /\ UNCHANGED <<dailyFile, stateFile, clock, run, delivered, writing>>

SpecUpdateMaster == InitUpdateMaster /\ [][ApplyUpdateMaster]_vars

\* ------------------------------------------------------------ properties
\* the instant a stored item's <pubDate> text stands for
StoredDate(item) == parsedate_to_datetime(item.pubDate)

\* the bag of the items of s at the positions in I
BagAt(s, I) ==
    [x \in {s[i] : i \in I} |-> Cardinality({i \in I : s[i] = x})]

BagOfSeq(s) == BagAt(s, 1..Len(s))

\* the last call ran the digest step to its end
DigestDone == run.dailyRan /\ ~run.raised /\ ~run.skipped

\* the digest step of the last call found a watermark / found none
HadWatermark == run.prevState.kind = "json" /\ run.prevState.last_seen > None

HadNoWatermark == run.prevState.kind = "nofile"

\* the positions of the master items published after instant t
NewerThan(t) == {i \in 1..Len(masterFile.items) : StoredDate(masterFile.items[i]) > t}

\* the latest publication instant in the digest document
LatestInDigest == Max({StoredDate(dailyFile.items[i]) : i \in 1..Len(dailyFile.items)})

\* C1: no two items of the stored master document share a link, whatever the
\* sources return in each run.
C1_LinkUniqueness ==
    \A i, j \in 1..Len(masterFile.items) :
        i # j => masterFile.items[i].link # masterFile.items[j].link

\* C2: the persisted watermark never decreases: once it is set it stays set,
\* and every change moves it to a value greater than or equal to the previous one.
C2_WatermarkMonotone ==
    [][stateFile.kind = "json" =>
          /\ stateFile'.kind = "json"
          /\ stateFile'.last_seen >= stateFile.last_seen]_vars

C2_Witness ==
    /\ DigestDone /\ HadWatermark
    /\ stateFile.kind = "json"
    /\ stateFile.last_seen > run.prevState.last_seen

\* C3: a digest step that finds watermark T and a master document writes exactly
\* the master items published strictly after T, and, when there are any, moves
\* the watermark to the latest publication date among them.
C3_SubsequentSelection ==
    (DigestDone /\ HadWatermark) =>
        LET T == fromisoformat(run.prevState.last_seen)
        IN  /\ dailyFile.exists
            /\ BagOfSeq(dailyFile.items) = BagAt(masterFile.items, NewerThan(T))
            /\ NewerThan(T) # {} =>
                   /\ stateFile.kind = "json"
                   /\ fromisoformat(stateFile.last_seen) = LatestInDigest

C3_Witness ==
    /\ DigestDone /\ HadWatermark
    /\ dailyFile.items # <<>>
    /\ \E i \in 1..Len(masterFile.items) :
           StoredDate(masterFile.items[i]) = fromisoformat(run.prevState.last_seen)
    /\ stateFile.last_seen > run.prevState.last_seen

\* C4: a digest step that finds no watermark and a master document of n items
\* writes exactly the min(n, FIRST_RUN_ITEMS) most recent of them and, when
\* n > 0, sets the watermark to the latest publication date among them.
C4_FirstRunFallback ==
    (DigestDone /\ HadNoWatermark) =>
        LET n == Len(masterFile.items)
            digest == BagOfSeq(dailyFile.items)
            rest == BagOfSeq(masterFile.items) (-) digest
        IN  /\ dailyFile.exists
            /\ Len(dailyFile.items) = Min2(n, FIRST_RUN_ITEMS)
            /\ digest \sqsubseteq BagOfSeq(masterFile.items)
            /\ \A x \in BagToSet(digest), y \in BagToSet(rest) :
                   StoredDate(x) >= StoredDate(y)
            /\ n > 0 =>
                   /\ stateFile.kind = "json"
                   /\ fromisoformat(stateFile.last_seen) = LatestInDigest

C4_Witness ==
    /\ DigestDone /\ HadNoWatermark
    /\ Len(masterFile.items) > FIRST_RUN_ITEMS
    /\ Len(dailyFile.items) = FIRST_RUN_ITEMS
    /\ StoredDate(masterFile.items[1]) > StoredDate(masterFile.items[Len(masterFile.items)])
    /\ stateFile.kind = "json"

\* C5: after any update_master() run the master document holds at most
\* MAX_ITEMS items.
C5_BoundedSize == Len(masterFile.items) <= MAX_ITEMS

\* a run that was offered a new item and trimmed it away
C5_Witness ==
    /\ run.op = "update_master"
    /\ Len(masterFile.items) = MAX_ITEMS
    /\ \E o \in run.offered : o \notin Range(masterFile.items)

\* C6: after any update_master() run the stored items are in non-increasing
\* order of publication date.
C6_SortOrder ==
    \A i, j \in 1..Len(masterFile.items) :
        i < j => StoredDate(masterFile.items[i]) >= StoredDate(masterFile.items[j])

\* a run that put a new item in front of an older stored one
C6_Witness ==
    /\ run.op = "update_master"
    /\ Len(masterFile.items) = 2
    /\ StoredDate(masterFile.items[1]) > StoredDate(masterFile.items[2])
    /\ masterFile.items[1] \in run.offered
    /\ masterFile.items[2] \notin run.offered

\* C7: when the fetch of a source raises, update_master() still visits every
\* source in listed order, does not raise, and the master document holds every
\* new item of the sources that did not fail (unless the trim dropped it: the
\* document is full of items at least as recent).
C7_PartialSourceFailure ==
    (run.op = "update_master" /\ run.failed # {}) =>
        /\ ~run.raised
        /\ run.visited = [i \in 1..Len(FEEDS) |-> i]
        /\ \A o \in run.offered :
               \/ o \in Range(masterFile.items)
               \/ /\ Len(masterFile.items) = MAX_ITEMS
                  /\ \A k \in 1..Len(masterFile.items) :
                         StoredDate(masterFile.items[k]) >= StoredDate(o)

\* the first source failed and the item of a later one was stored
C7_Witness ==
    /\ run.op = "update_master"
    /\ run.failed = {1}
    /\ run.offered # {}
    /\ run.offered \subseteq Range(masterFile.items)

\* C8: a state record that is unreadable or malformed is treated as absent:
\* the digest step is never aborted by an error from reading it.
C8_MalformedStateIsAbsent == run.dailyRan => ~run.raised

\* C9: a digest step that finds a watermark and no master item published after
\* it still writes the digest document, with no items, and leaves the
\* watermark as it was.
C9_EmptyDigest ==
    (DigestDone /\ HadWatermark
        /\ NewerThan(fromisoformat(run.prevState.last_seen)) = {}) =>
        /\ dailyFile.exists
        /\ dailyFile.items = <<>>
        /\ stateFile = run.prevState

C9_Witness ==
    /\ DigestDone /\ HadWatermark
    /\ masterFile.items # <<>>
    /\ NewerThan(fromisoformat(run.prevState.last_seen)) = {}
    /\ dailyFile.exists /\ dailyFile.items = <<>>

\* C11: a digest step that finds no master document is skipped without
\* raising: it writes no digest document and leaves the state record as it was.
C11_MissingMaster ==
    (run.dailyRan /\ ~masterFile.exists) =>
        /\ run.skipped
        /\ ~run.raised
        /\ ~dailyFile.exists
        /\ stateFile = run.prevState

\* C10: every invocation of main() runs the master update, and runs the digest
\* step exactly when the time in BD_TIME is within TRIGGER_MINUTES minutes of
\* TRIGGER_HOUR:00, before or after.
C10_TriggerWindow ==
    run.op = "main" =>
        LET local == astimezone(Schedule[clock])
            nine == TRIGGER_HOUR * 60
        IN  run.dailyRan <=>
                (local >= nine - TRIGGER_MINUTES /\ local <= nine + TRIGGER_MINUTES)

\* C12: when writing the state record fails in a digest step, the master
\* document is still the complete one, the state record keeps the value the
\* step found, and the next digest step over the same master document reads
\* that value and derives the selection the failed step derived from it.
C12_StateWriteFailure ==
    run.fault \in StateFaults =>
        /\ masterFile.exists /\ masterFile.complete
        /\ stateFile = run.prevState
        /\ LET next == update_daily(masterFile, stateFile, dailyFile, NoFault)
               same == update_daily(masterFile, run.prevState, dailyFile, NoFault)
           IN  ~next.raised /\ next.daily = same.daily

\* the timestamp has no sub-second part
WholeSecond(t) == t % TicksPerSecond = 0

\* C13: writing a sequence of items whose timestamps are whole seconds and
\* loading the document back gives the same links in the same order, each
\* with the timestamp it had.
C13_RoundTrip ==
    (/\ call.op = "roundtrip" /\ call.done
     /\ \A i \in 1..Len(call.items) : WholeSecond(call.items[i].pubDate)) =>
        /\ Len(call.loaded) = Len(call.items)
        /\ \A i \in 1..Len(call.items) :
               /\ call.loaded[i].link = call.items[i].link
               /\ call.loaded[i].pubDate = call.items[i].pubDate

\* two items in ascending order of time came back as they were written
C13_Witness ==
    /\ call.op = "roundtrip" /\ call.done
    /\ Len(call.items) >= 2
    /\ \A i \in 1..Len(call.items) : WholeSecond(call.items[i].pubDate)
    /\ call.items[1].pubDate < call.items[2].pubDate
    /\ call.items[1].link # call.items[2].link
    /\ call.loaded = call.items

\* What the call of update_master() on record had to arrange.  A slot is a
\* place an item comes from: <<0, j>> is the j-th item of the document before
\* the call, <<i, k>> the k-th entry the i-th source returned, when that source
\* did not fail and the entry has a link that was not stored before the call.
CallSlots ==
    {<<0, j>> : j \in 1..Len(call.before.items)}
    \cup {p \in (1..Len(FEEDS))
                    \X (1..Max({Len(call.fetch[i].entries) : i \in 1..Len(FEEDS)})) :
            /\ ~call.fetch[p[1]].error
            /\ p[2] <= Len(call.fetch[p[1]].entries)
            /\ call.fetch[p[1]].entries[p[2]].link # NoLink
            /\ call.fetch[p[1]].entries[p[2]].link \notin LinksOf(call.before.items)}

\* the publication instant the sort sees for a slot
SlotKey(p) ==
    IF p[1] = 0 THEN StoredDate(call.before.items[p[2]])
    ELSE parse_date(call.fetch[p[1]].entries[p[2]], call.now)

\* the item of a slot as a document holds it
SlotStored(p) ==
    IF p[1] = 0 THEN call.before.items[p[2]]
    ELSE LET e == call.fetch[p[1]].entries[p[2]]
         IN  [title |-> getattr(e.title, DefaultTitle), link |-> e.link,
              description |-> getattr(e.summary, DefaultSummary),
              pubDate |-> strftime(SlotKey(p))]

\* q comes before p: it is more recent, or as recent and earlier in (existing
\* items, then new items in source order, then entry order)
SlotBefore(q, p) ==
    \/ SlotKey(q) > SlotKey(p)
    \/ /\ SlotKey(q) = SlotKey(p)
       /\ (q[1] < p[1] \/ (q[1] = p[1] /\ q[2] < p[2]))

SlotRank(p) == 1 + Cardinality({q \in CallSlots : SlotBefore(q, p)})

\* C14: the master document update_master() leaves holds the existing items
\* followed by the new ones (source order, then entry order), arranged most
\* recent first with ties kept in that order, and cut to the first MAX_ITEMS:
\* an existing item comes before a new item of the same timestamp and is
\* trimmed only after it.
C14_StableSortAndTrim ==
    (call.op = "update_master" /\ call.done) =>
        /\ masterFile.exists /\ masterFile.complete
        /\ Len(masterFile.items) = Min2(Cardinality(CallSlots), MAX_ITEMS)
        /\ \A p \in CallSlots :
               SlotRank(p) <= MAX_ITEMS => masterFile.items[SlotRank(p)] = SlotStored(p)

\* a full document met a new item of the timestamp of its last item: the
\* stored item stayed and the new one was trimmed; and a new item of a later
\* timestamp went in front
C14_Witness ==
    /\ call.op = "update_master" /\ call.done
    /\ Len(call.before.items) = MAX_ITEMS
    /\ \E p, q \in CallSlots :
           /\ p[1] = 0 /\ q[1] > 0
           /\ SlotKey(q) = SlotKey(p)
           /\ SlotRank(p) = MAX_ITEMS
           /\ masterFile.items[MAX_ITEMS] = SlotStored(p)
           /\ SlotStored(q) \notin Range(masterFile.items)
    /\ \E q \in CallSlots : q[1] > 0 /\ SlotRank(q) = 1

\* the copies of item x in document doc
CopiesOf(x, doc) == Cardinality({k \in 1..Len(doc.items) : doc.items[k] = x})

\* the entries the sources that did not fail returned to the call on record
CallServed ==
    UNION {Range(call.fetch[i].entries) : i \in {j \in 1..Len(FEEDS) : ~call.fetch[j].error}}

C16_AtomicReplacement ==
    (run.op = "load" /\ writing.active) =>
        /\ ~run.raised
        /\ masterFile \in {writing.previous, writing.new}

\* C17: a link is delivered once: a digest document holds no link twice and no
\* link that an earlier digest document held.
C17_NoRepeatedDelivery ==
    [][DigestDone' =>
          /\ \A i, j \in 1..Len(dailyFile'.items) :
                 i # j => dailyFile'.items[i].link # dailyFile'.items[j].link
          /\ \A i \in 1..Len(dailyFile'.items) :
                 dailyFile'.items[i].link \notin delivered]_vars

\* C18, as claimed: a digest step that finds a watermark writes every master
\* item whose link no earlier digest document held, whatever its publication
\* date.
C18_NoSkippedDelivery ==
    [][(DigestDone' /\ HadWatermark') =>
          \A i \in 1..Len(masterFile'.items) :
              masterFile'.items[i].link \notin delivered =>
                  masterFile'.items[i] \in Range(dailyFile'.items)]_vars

\* C18, amended: a digest step that finds watermark T writes every master item
\* whose link no earlier digest document held and that was published strictly
\* after T; an item stored with a publication date at or before T is not
\* selected, delivered before or not.
C18_NoSkippedNewer ==
    [][(DigestDone' /\ HadWatermark') =>
          \A i \in 1..Len(masterFile'.items) :
              (/\ masterFile'.items[i].link \notin delivered
               /\ StoredDate(masterFile'.items[i]) > fromisoformat(run'.prevState.last_seen)) =>
                  masterFile'.items[i] \in Range(dailyFile'.items)]_vars

\* a digest that delivered a new item while the master document held another
\* one, published at or before the watermark, that no digest has delivered
C18_Witness ==
    /\ DigestDone /\ HadWatermark
    /\ dailyFile.items # <<>>
    /\ stateFile.last_seen > run.prevState.last_seen
    /\ \E i \in 1..Len(masterFile.items) :
           /\ StoredDate(masterFile.items[i]) <= fromisoformat(run.prevState.last_seen)
           /\ masterFile.items[i].link \notin delivered

\* C19: the watermark follows delivery: a digest step that leaves a watermark
\* W it did not find has written the digest document to its end, and that
\* document holds an item published at W; a step that could not write the
\* digest document leaves the watermark it found.
C19_WatermarkFollowsDelivery ==
    (run.dailyRan /\ stateFile.kind = "json" /\ stateFile # run.prevState) =>
        /\ dailyFile.exists /\ dailyFile.complete
        /\ \E i \in 1..Len(dailyFile.items) :
               StoredDate(dailyFile.items[i]) = fromisoformat(stateFile.last_seen)

====
